---- MODULE Spec2Model ----
(***************************************************************************)
(* Verification model of the Detail Enricher (ATMB_detail.py): the         *)
(* resumable per-Record enrichment loop, its batched checkpoints and the   *)
(* save_csv persistence routine, over a small file system.                 *)
(***************************************************************************)
EXTENDS Integers, Sequences, FiniteSets, TLC

(* ------------------------------ bounds --------------------------------- *)
\* longest input Table of the general specifications
MaxRows == 3
\* length of the long Table of SpecLong (more than one batch interval)
LongRows == 13

(* ------------------------- program constants --------------------------- *)
\* ATMB_detail.py:171  idx % 10
BatchInterval == 10
\* ATMB_detail.py:110  fieldnames.insert(1, ...)   (0-based position)
SuiteIndex == 1
\* ATMB_detail.py:151  response.status_code == 200
StatusOK == 200
\* ATMB_detail.py:50  len(clean_line) > 1
MinUnitLen == 1

SuiteCol == "Suite/Apartment"
\* ATMB_scrape.py:118, the header the Harvester writes
HarvestSchema ==
  <<"Street Address", "City", "State Abbreviation", "Zip Code", "Detail Url">>

(* ------------------------------ files ---------------------------------- *)
\* The input of a region, its "_detailed" companion and the temporary file
\* save_csv writes next to the latter (filename + ".tmp").
PlainPath == "co.csv"
DetailedPath == "co_detailed.csv"
Paths == {PlainPath, DetailedPath}

\* ATMB_detail.py:56
TempPath(filename) == filename \o ".tmp"

AllPaths == Paths \cup {TempPath(DetailedPath)}

\* ATMB_detail.py:71-76: a file already named "_detailed" is updated in place
OutputFor(input) ==
  IF input = DetailedPath THEN input ELSE DetailedPath

NoFile == [kind |-> "absent"]
\* a file opened with mode 'w' and not written yet
EmptyFile == [kind |-> "empty"]
Table(fn, rs) == [kind |-> "table", fieldnames |-> fn, rows |-> rs]
IsTable(f) == f.kind = "table"

(* ----------------------------- sequences ------------------------------- *)
\* list.append(x) in the place of list.insert(i, x)
InsertAtEnd(s, i, x) == Append(s, x)

\* list.insert(i, x) with a 0-based position; a position past the end appends
InsertAt(s, i, x) ==
  IF i >= Len(s) THEN Append(s, x)
  ELSE SubSeq(s, 1, i) \o <<x>> \o SubSeq(s, i + 1, Len(s))

Contains(s, x) == \E i \in 1..Len(s) : s[i] = x

\* 0-based positions of x in s
IndicesOf(s, x) == {i - 1 : i \in {j \in 1..Len(s) : s[j] = x}}

(* ------------------------- detail page markup -------------------------- *)
\* A line of the address container is a sequence of words separated by single
\* blanks.
BoilerWords == {"United States", "Your Real Street Address", "YOUR NAME"}
\* words matched by \b(Suite|Ste|Unit|Apt)\b, case-insensitively
UnitWords == {"Suite", "Ste", "UNIT", "apt"}
\* words holding the character '#'
HashWords == {"#244", "#"}
Placeholder == "MAILBOX"

\* ATMB_detail.py:41
IsBoiler(line) == \E i \in 1..Len(line) : line[i] \in BoilerWords
\* ATMB_detail.py:46
IsUnitLine(line) == \E i \in 1..Len(line) : line[i] \in UnitWords \cup HashWords

\* str.strip() on a line whose placeholder words were blanked: the leading and
\* the trailing empty words go, inner ones leave their separators behind
RECURSIVE StripLeft(_)
StripLeft(ws) ==
  IF ws = <<>> THEN <<>>
  ELSE IF Head(ws) = "" THEN StripLeft(Tail(ws)) ELSE ws

RECURSIVE StripRight(_)
StripRight(ws) ==
  IF ws = <<>> THEN <<>>
  ELSE IF ws[Len(ws)] = "" THEN StripRight(SubSeq(ws, 1, Len(ws) - 1)) ELSE ws

RECURSIVE Join(_)
Join(ws) ==
  IF ws = <<>> THEN ""
  ELSE IF Len(ws) = 1 THEN ws[1]
  ELSE ws[1] \o " " \o Join(Tail(ws))

\* ATMB_detail.py:48  line.replace("MAILBOX", "").strip()
CleanLine(line) ==
  Join(StripRight(StripLeft(
    [i \in 1..Len(line) |-> IF line[i] = Placeholder THEN "" ELSE line[i]])))

\* a page is the list of lines of its address container, when it has one
Page(ls) == [container |-> TRUE, lines |-> ls]
\* ATMB_detail.py:31-33, soup.find(class_='t-addr') finds nothing
NoContainer == [container |-> FALSE, lines |-> <<>>]

\* ATMB_detail.py:39-53, the scan of the container's lines
RECURSIVE ScanLines(_)
ScanLines(lines) ==
  IF lines = <<>> THEN ""
  ELSE IF IsBoiler(Head(lines)) THEN ScanLines(Tail(lines))
  ELSE IF IsUnitLine(Head(lines)) /\ Len(CleanLine(Head(lines))) > MinUnitLen
       THEN CleanLine(Head(lines))
  ELSE ScanLines(Tail(lines))

\* ATMB_detail.py:27-53
extract_suite_info(page) ==
  IF ~page.container THEN "" ELSE ScanLines(page.lines)

\* the pages a detail URL can serve
Pages ==
  { NoContainer,
    Page(<< <<"United States">>, <<"YOUR NAME">> >>),
    Page(<< <<"123", "Main", "St">>, <<"United States">> >>),
    Page(<< <<"MAILBOX", "#">> >>),
    Page(<< <<"Suite", "9", "United States">> >>),
    Page(<< <<"MAILBOX", "#244">>, <<"123", "Main", "St">>, <<"United States">> >>) }

(* --------------------------- fetch responses --------------------------- *)
\* where requests.get ended up: the requested URL, another URL of the same
\* page, the listings page, or the home page
FinalUrls == {"requested", "other", "locations", "home"}

\* ATMB_detail.py:144-147
IsListingRedirect(r) == r.url # "requested" /\ r.url \in {"locations", "home"}

\* requests.get raised (timeout, connection error)
Raised == [exc |-> TRUE, url |-> "requested", status |-> 0, page |-> NoContainer]
NoResponse == [exc |-> FALSE, url |-> "requested", status |-> 0, page |-> NoContainer]

\* ATMB_detail.py:151,164: 200, and a status that is not
Statuses == {StatusOK, 404}

Responses ==
  {Raised} \cup
  [exc : {FALSE}, url : FinalUrls, status : Statuses, page : Pages]

(* ------------------------------ records -------------------------------- *)
\* A Record: id stands for its street, city, state, zip and detail URL; ok says
\* that both 'City' and 'Street Address' are non-empty; suite is the cell of
\* the 'Suite/Apartment' column, "" when the cell is empty or the column is
\* absent.  A cell is "" or a unit designator as extract_suite_info returns it
\* (stripped, longer than one character), which row.get(..).strip() leaves as
\* it is.
Rec(i, k, s) == [id |-> i, ok |-> k, suite |-> s]

DetailedSchema == InsertAt(HarvestSchema, SuiteIndex, SuiteCol)

SuitesOf(schema) == IF Contains(schema, SuiteCol) THEN {"", "#244"} ELSE {""}

\* the Tables of up to n Records a path can hold before the first run: a
\* Harvester-style Table at the plain path, a Table that has the column at
\* the "_detailed" path
InputTables(path, n) ==
  LET schema == IF path = PlainPath THEN HarvestSchema ELSE DetailedSchema
  IN  UNION { { Table(schema, [i \in 1..k |-> Rec(i, f[i].ok, f[i].suite)]) :
                  f \in [1..k -> [ok : BOOLEAN, suite : SuitesOf(schema)]] } :
              k \in 0..n }

(* ------------------------------- state --------------------------------- *)
VARIABLES
  fs,             \* the files: path -> NoFile, EmptyFile or a Table
  input_file,     \* the path the Enricher is invoked on
  pc,             \* position of the Enricher process
  sv,             \* position inside save_csv, "-" outside it
  exit,           \* how the last run ended
  fieldnames,     \* process_file's fieldnames
  all_rows,       \* process_file's all_rows, the working Table
  idx,            \* loop index, 0-based
  success_count,
  updated_any,
  resp,           \* the response being handled
  pending,        \* enrichments of this run since its last completed save_csv
  enriched,       \* enrichments of this run
  sinceFetch,     \* "none", "fetched" or "slept": what followed the last fetch
  fetched,        \* 0-based indices this run issued a fetch for
  prev,           \* how the run before this one ended and what it left
  orig,           \* what the input path held before the first run
  oracle,         \* the response each detail URL serves, once known
  two,            \* two Enricher runs inside save_csv on one output path
  hv,             \* the Harvester (ATMB_scrape.py)
  vf              \* the Verifier (ATMB_verify.py)

vars ==
  <<fs, input_file, pc, sv, exit, fieldnames, all_rows, idx, success_count,
    updated_any, resp, pending, enriched, sinceFetch, fetched, prev, orig,
    oracle, two, hv, vf>>

\* the state of the components that a specification of the single Enricher
\* leaves alone
rest == <<two, hv, vf>>
NotRunning == [kind |-> "not running"]

proc == <<fieldnames, all_rows, idx, success_count, updated_any, resp>>

output_file == OutputFor(input_file)
total == Len(all_rows)
row == all_rows[idx + 1]

NoPrev == [kind |-> "-", n |-> 0, out |-> NoFile]

\* at the start of a run: how the last one ended, how many Records it
\* enriched, and what a completed one left at the output path
LastRun ==
  [kind |-> exit, n |-> enriched,
   out |-> IF exit = "complete" THEN fs[output_file] ELSE NoFile]

InitWith(n) ==
  /\ input_file \in Paths
  /\ \E t \in InputTables(input_file, n) \cup {NoFile} :
       fs = [p \in AllPaths |-> IF p = input_file THEN t ELSE NoFile]
  /\ pc = "idle"
  /\ sv = "-"
  /\ exit = "-"
  /\ fieldnames = <<>>
  /\ all_rows = <<>>
  /\ idx = 0
  /\ success_count = 0
  /\ updated_any = FALSE
  /\ resp = NoResponse
  /\ pending = 0
  /\ enriched = 0
  /\ sinceFetch = "none"
  /\ fetched = {}
  /\ prev = NoPrev
  /\ orig = fs[input_file]
  /\ oracle = <<>>
  /\ two = NotRunning /\ hv = NotRunning /\ vf = NotRunning

Init == InitWith(MaxRows)

(* --------------------------- process_file ------------------------------ *)
\* a start that never looks at the output path
ResumeTableFresh(inp, out) ==
  [fieldnames |-> IF Contains(inp.fieldnames, SuiteCol) THEN inp.fieldnames
                  ELSE InsertAt(inp.fieldnames, SuiteIndex, SuiteCol),
   rows |-> inp.rows]

\* ATMB_detail.py:92-110: the fieldnames and rows the loop starts from, given
\* the input Table and what the output path holds
ResumeTable(inp, out) ==
  LET adopt == IsTable(out) /\ Len(out.rows) >= Len(inp.rows)
      rs == IF adopt THEN out.rows ELSE inp.rows
      fn == IF /\ adopt
               /\ ~Contains(inp.fieldnames, SuiteCol)
               /\ Contains(out.fieldnames, SuiteCol)
            THEN out.fieldnames ELSE inp.fieldnames
  IN  [fieldnames |-> IF Contains(fn, SuiteCol) THEN fn
                      ELSE InsertAt(fn, SuiteIndex, SuiteCol),
       rows |-> rs]

\* the process holds nothing outside a run
Forget ==
  /\ fieldnames' = <<>>
  /\ all_rows' = <<>>
  /\ idx' = 0
  /\ success_count' = 0
  /\ updated_any' = FALSE
  /\ resp' = NoResponse
  /\ sv' = "-"

\* ATMB_detail.py:66-69: the input path does not exist
StartNoInput ==
  /\ pc \in {"idle", "done", "killed"}
  /\ ~IsTable(fs[input_file])
  /\ pc' = "done"
  /\ exit' = "no input"
  /\ prev' = LastRun
  /\ pending' = 0 /\ enriched' = 0 /\ sinceFetch' = "none" /\ fetched' = {}
  /\ Forget
  /\ UNCHANGED <<fs, input_file, orig, oracle, rest>>

\* ATMB_detail.py:81-90: the input holds a header and no row
StartNoRows ==
  /\ pc \in {"idle", "done", "killed"}
  /\ IsTable(fs[input_file])
  /\ fs[input_file].rows = <<>>
  /\ pc' = "done"
  /\ exit' = "no rows"
  /\ prev' = LastRun
  /\ pending' = 0 /\ enriched' = 0 /\ sinceFetch' = "none" /\ fetched' = {}
  /\ Forget
  /\ UNCHANGED <<fs, input_file, orig, oracle, rest>>

\* ATMB_detail.py:78-114: read the input, resume from the output, set the
\* counters
Start ==
  /\ pc \in {"idle", "done", "killed"}
  /\ IsTable(fs[input_file])
  /\ fs[input_file].rows # <<>>
  /\ LET w == ResumeTable(fs[input_file], fs[output_file])
     IN  /\ fieldnames' = w.fieldnames
         /\ all_rows' = w.rows
  /\ idx' = 0
  /\ success_count' = 0
  /\ updated_any' = FALSE
  /\ resp' = NoResponse
  /\ sv' = "-"
  /\ pc' = "loop"
  /\ exit' = "-"
  /\ prev' = LastRun
  /\ pending' = 0 /\ enriched' = 0 /\ sinceFetch' = "none" /\ fetched' = {}
  /\ UNCHANGED <<fs, input_file, orig, oracle, rest>>

\* ATMB_detail.py:116: the for loop takes the next row, or ends
Advance ==
  /\ idx' = idx + 1
  /\ pc' = IF idx + 1 < total THEN "loop" ELSE "final"

\* a Record that has its unit is passed over without being counted
SkipResolvedUncounted ==
  /\ pc = "loop"
  /\ row.suite # ""
  /\ Advance
  /\ UNCHANGED <<fs, input_file, sv, exit, fieldnames, all_rows, success_count,
                 updated_any, resp, pending, enriched, sinceFetch,
                 fetched, prev, orig, oracle, rest>>

\* ATMB_detail.py:120-124
SkipResolved ==
  /\ pc = "loop"
  /\ row.suite # ""
  /\ success_count' = success_count + 1
  /\ Advance
  /\ UNCHANGED <<fs, input_file, sv, exit, fieldnames, all_rows, updated_any,
                 resp, pending, enriched, sinceFetch,
                 fetched, prev, orig, oracle, rest>>

\* ATMB_detail.py:126-130
SkipNoAddress ==
  /\ pc = "loop"
  /\ row.suite = ""
  /\ ~row.ok
  /\ Advance
  /\ UNCHANGED <<fs, input_file, sv, exit, fieldnames, all_rows, success_count,
                 updated_any, resp, pending, enriched, sinceFetch,
                 fetched, prev, orig, oracle, rest>>

\* ATMB_detail.py:132-141: requests.get answers r, or raises
Get(r) ==
  /\ pc = "loop"
  /\ row.suite = ""
  /\ row.ok
  /\ resp' = r
  /\ pc' = "got"
  /\ sinceFetch' = "fetched"
  /\ fetched' = fetched \cup {idx}
  /\ UNCHANGED <<fs, input_file, sv, exit, fieldnames, all_rows, idx,
                 success_count, updated_any, pending, enriched, prev, orig, rest>>

\* the external service answers as it likes
Fetch ==
  /\ \E r \in Responses : Get(r)
  /\ UNCHANGED oracle

\* ATMB_detail.py:167-168
HandleException ==
  /\ pc = "got"
  /\ resp.exc
  /\ resp' = NoResponse
  /\ pc' = "ckpt"
  /\ UNCHANGED <<fs, input_file, sv, exit, fieldnames, all_rows, idx,
                 success_count, updated_any, pending, enriched, sinceFetch,
                 fetched, prev, orig, oracle, rest>>

\* ATMB_detail.py:144-149: continue
HandleRedirect ==
  /\ pc = "got"
  /\ ~resp.exc
  /\ IsListingRedirect(resp)
  /\ resp' = NoResponse
  /\ Advance
  /\ UNCHANGED <<fs, input_file, sv, exit, fieldnames, all_rows, success_count,
                 updated_any, pending, enriched, sinceFetch,
                 fetched, prev, orig, oracle, rest>>

\* the status of the response is not looked at
HandleFoundAnyStatus ==
  /\ pc = "got"
  /\ ~resp.exc
  /\ ~IsListingRedirect(resp)
  /\ extract_suite_info(resp.page) # ""
  /\ all_rows' = [all_rows EXCEPT ![idx + 1].suite = extract_suite_info(resp.page)]
  /\ success_count' = success_count + 1
  /\ updated_any' = TRUE
  /\ pending' = pending + 1
  /\ enriched' = enriched + 1
  /\ resp' = NoResponse
  /\ pc' = "ckpt"
  /\ UNCHANGED <<fs, input_file, sv, exit, fieldnames, idx, sinceFetch,
                 fetched, prev, orig, oracle, rest>>

\* ATMB_detail.py:151-157
HandleFound ==
  /\ pc = "got"
  /\ ~resp.exc
  /\ ~IsListingRedirect(resp)
  /\ resp.status = StatusOK
  /\ extract_suite_info(resp.page) # ""
  /\ all_rows' = [all_rows EXCEPT ![idx + 1].suite = extract_suite_info(resp.page)]
  /\ success_count' = success_count + 1
  /\ updated_any' = TRUE
  /\ pending' = pending + 1
  /\ enriched' = enriched + 1
  /\ resp' = NoResponse
  /\ pc' = "ckpt"
  /\ UNCHANGED <<fs, input_file, sv, exit, fieldnames, idx, sinceFetch,
                 fetched, prev, orig, oracle, rest>>

\* ATMB_detail.py:158-163
HandleNoInfo ==
  /\ pc = "got"
  /\ ~resp.exc
  /\ ~IsListingRedirect(resp)
  /\ resp.status = StatusOK
  /\ extract_suite_info(resp.page) = ""
  /\ resp' = NoResponse
  /\ pc' = "ckpt"
  /\ UNCHANGED <<fs, input_file, sv, exit, fieldnames, all_rows, idx,
                 success_count, updated_any, pending, enriched, sinceFetch,
                 fetched, prev, orig, oracle, rest>>

\* a failed fetch is tried again at once
HandleFailedRetry ==
  /\ pc = "got"
  /\ ~resp.exc
  /\ ~IsListingRedirect(resp)
  /\ resp.status # StatusOK
  /\ resp' = NoResponse
  /\ pc' = "loop"
  /\ UNCHANGED <<fs, input_file, sv, exit, fieldnames, all_rows, idx,
                 success_count, updated_any, pending, enriched, sinceFetch,
                 fetched, prev, orig, oracle, rest>>

\* ATMB_detail.py:164-165
HandleFailed ==
  /\ pc = "got"
  /\ ~resp.exc
  /\ ~IsListingRedirect(resp)
  /\ resp.status # StatusOK
  /\ resp' = NoResponse
  /\ pc' = "ckpt"
  /\ UNCHANGED <<fs, input_file, sv, exit, fieldnames, all_rows, idx,
                 success_count, updated_any, pending, enriched, sinceFetch,
                 fetched, prev, orig, oracle, rest>>

\* the checkpoint without the final-row case
SaveDueBatchOnly == updated_any /\ idx % BatchInterval = 0

\* ATMB_detail.py:171
SaveDue == updated_any /\ (idx % BatchInterval = 0 \/ idx = total - 1)

\* ATMB_detail.py:171-172: call save_csv
CheckpointSave ==
  /\ pc = "ckpt"
  /\ sv = "-"
  /\ SaveDue
  /\ sv' = "open"
  /\ UNCHANGED <<fs, input_file, pc, exit, proc, pending, enriched, sinceFetch,
                 fetched, prev, orig, oracle, rest>>

\* ATMB_detail.py:171: the condition is false
CheckpointSkip ==
  /\ pc = "ckpt"
  /\ sv = "-"
  /\ ~SaveDue
  /\ pc' = "sleep"
  /\ UNCHANGED <<fs, input_file, sv, exit, proc, pending, enriched, sinceFetch,
                 fetched, prev, orig, oracle, rest>>

\* ATMB_detail.py:175
Sleep ==
  /\ pc = "sleep"
  /\ sinceFetch' = "slept"
  /\ Advance
  /\ UNCHANGED <<fs, input_file, sv, exit, fieldnames, all_rows, success_count,
                 updated_any, resp, pending, enriched, fetched, prev,
                 orig, oracle, rest>>

\* ATMB_detail.py:178: call save_csv
FinalSave ==
  /\ pc = "final"
  /\ sv = "-"
  /\ sv' = "open"
  /\ UNCHANGED <<fs, input_file, pc, exit, proc, pending, enriched, sinceFetch,
                 fetched, prev, orig, oracle, rest>>

(* ------------------------------ save_csv ------------------------------- *)
temp_file == TempPath(output_file)

\* ATMB_detail.py:57: open(temp_file, 'w') creates or truncates
SaveOpen ==
  /\ sv = "open"
  /\ fs' = [fs EXCEPT ![temp_file] = EmptyFile]
  /\ sv' = "write"
  /\ UNCHANGED <<input_file, pc, exit, proc, pending, enriched, sinceFetch,
                 fetched, prev, orig, oracle, rest>>

\* ATMB_detail.py:58-60: header and rows, flushed when the file is closed
SaveWrite ==
  /\ sv = "write"
  /\ fs' = [fs EXCEPT ![temp_file] = Table(fieldnames, all_rows)]
  /\ sv' = "exists"
  /\ UNCHANGED <<input_file, pc, exit, proc, pending, enriched, sinceFetch,
                 fetched, prev, orig, oracle, rest>>

\* ATMB_detail.py:62
SaveExists ==
  /\ sv = "exists"
  /\ sv' = IF fs[output_file] # NoFile THEN "remove" ELSE "rename"
  /\ UNCHANGED <<fs, input_file, pc, exit, proc, pending, enriched, sinceFetch,
                 fetched, prev, orig, oracle, rest>>

\* ATMB_detail.py:63
SaveRemove ==
  /\ sv = "remove"
  /\ fs' = [fs EXCEPT ![output_file] = NoFile]
  /\ sv' = "rename"
  /\ UNCHANGED <<input_file, pc, exit, proc, pending, enriched, sinceFetch,
                 fetched, prev, orig, oracle, rest>>

\* ATMB_detail.py:64, and the return to the caller: line 173 after the
\* checkpoint, line 179 after the final save
SaveRename ==
  /\ sv = "rename"
  /\ fs' = [fs EXCEPT ![output_file] = fs[temp_file], ![temp_file] = NoFile]
  /\ sv' = "-"
  /\ pending' = 0
  /\ IF pc = "ckpt"
       THEN /\ updated_any' = FALSE
            /\ pc' = "sleep"
            /\ UNCHANGED exit
       ELSE /\ pc' = "done"
            /\ exit' = "complete"
            /\ UNCHANGED updated_any
  /\ UNCHANGED <<input_file, fieldnames, all_rows, idx, success_count, resp,
                 enriched, sinceFetch, fetched, prev, orig, oracle, rest>>

(* --------------------------- the environment --------------------------- *)
\* the process is terminated from outside, anywhere in a run
Kill ==
  /\ pc \notin {"idle", "done", "killed"}
  /\ pc' = "killed"
  /\ exit' = "killed"
  /\ Forget
  /\ pending' = 0 /\ sinceFetch' = "none" /\ fetched' = {}
  /\ UNCHANGED <<fs, input_file, enriched, prev, orig, oracle, rest>>

Loop ==
  \/ SkipResolved \/ SkipNoAddress
  \/ HandleException \/ HandleRedirect \/ HandleFound \/ HandleNoInfo
  \/ HandleFailed
  \/ CheckpointSave \/ CheckpointSkip \/ Sleep \/ FinalSave

save_csv == SaveOpen \/ SaveWrite \/ SaveExists \/ SaveRemove \/ SaveRename

Next ==
  \/ StartNoInput \/ StartNoRows \/ Start
  \/ Fetch
  \/ Loop
  \/ save_csv
  \/ Kill

Spec == Init /\ [][Next]_vars

(* ------------------------ the Harvester runs again -------------------- *)
\* ATMB_scrape.py:105-119: between two Enricher runs the Harvester writes the
\* region's Table anew, k parsed Records under its own header
Harvest ==
  /\ pc \in {"idle", "done", "killed"}
  /\ input_file = PlainPath
  /\ \E k \in 1..MaxRows :
       fs' = [fs EXCEPT ![PlainPath] =
                Table(HarvestSchema, [i \in 1..k |-> Rec(i, TRUE, "")])]
  /\ UNCHANGED <<input_file, pc, sv, exit, proc, pending, enriched, sinceFetch,
                 fetched, prev, orig, oracle, rest>>

\* Runs of the Enricher on the Harvester's file, whose Records all carry a
\* street and a city (ATMB_scrape.py:102), each run to its end, with runs of
\* the Harvester in between.
InitEnv ==
  /\ InitWith(MaxRows)
  /\ input_file = PlainPath
  /\ IsTable(fs[PlainPath]) => \A i \in 1..Len(fs[PlainPath].rows) :
                                  fs[PlainPath].rows[i].ok

NextEnv ==
  \/ StartNoInput \/ StartNoRows \/ Start
  \/ Fetch
  \/ SkipResolved
  \/ HandleException \/ HandleRedirect \/ HandleFound \/ HandleNoInfo
  \/ HandleFailed
  \/ CheckpointSave \/ CheckpointSkip \/ Sleep \/ FinalSave
  \/ save_csv
  \/ Harvest

SpecEnv == InitEnv /\ [][NextEnv]_vars

(* ------------------- a deterministic external service ----------------- *)
\* the responses of the deterministic service: an exception, a redirect to
\* the listings page, a missing page, a page without container, a page with
\* a unit
DetResponses ==
  { r \in Responses :
      \/ r.exc
      \/ /\ r.url = "locations" /\ r.status = StatusOK /\ ~r.page.container
      \/ /\ r.url = "requested" /\ r.status # StatusOK /\ ~r.page.container
      \/ /\ r.url = "requested" /\ r.status = StatusOK
         /\ (~r.page.container \/ extract_suite_info(r.page) # "") }

\* every fetch of a detail URL gets the response its first fetch got
FetchDet ==
  \E r \in DetResponses :
    /\ pc = "loop"
    /\ row.id \in DOMAIN oracle => oracle[row.id] = r
    /\ Get(r)
    /\ oracle' = IF row.id \in DOMAIN oracle THEN oracle
                 ELSE [i \in DOMAIN oracle \cup {row.id} |->
                         IF i = row.id THEN r ELSE oracle[i]]

NextDet ==
  \/ StartNoInput \/ StartNoRows \/ Start
  \/ FetchDet
  \/ Loop
  \/ save_csv
  \/ Kill

SpecDet == Init /\ [][NextDet]_vars

\* ATMB_detail.py:140-168: the secondary unit a response yields, "" for none
EnrichedSuite(r) ==
  IF ~r.exc /\ ~IsListingRedirect(r) /\ r.status = StatusOK
  THEN extract_suite_info(r.page) ELSE ""

\* ATMB_detail.py:116-178: the Table one uninterrupted run on the original
\* input persists, with the responses of the deterministic service
Uninterrupted ==
  Table(ResumeTable(orig, NoFile).fieldnames,
        [i \in 1..Len(orig.rows) |->
           LET r == orig.rows[i]
           IN  IF r.suite # "" \/ ~r.ok \/ r.id \notin DOMAIN oracle THEN r
               ELSE [r EXCEPT !.suite = EnrichedSuite(oracle[r.id])]])

(* ------------------ a Table longer than a batch interval --------------- *)
\* the Harvester's Table of LongRows Records at the plain path, no output yet
InitLong ==
  /\ input_file = PlainPath
  /\ fs = [p \in AllPaths |->
             IF p = PlainPath
             THEN Table(HarvestSchema, [i \in 1..LongRows |-> Rec(i, TRUE, "")])
             ELSE NoFile]
  /\ pc = "idle"
  /\ sv = "-"
  /\ exit = "-"
  /\ fieldnames = <<>>
  /\ all_rows = <<>>
  /\ idx = 0
  /\ success_count = 0
  /\ updated_any = FALSE
  /\ resp = NoResponse
  /\ pending = 0
  /\ enriched = 0
  /\ sinceFetch = "none"
  /\ fetched = {}
  /\ prev = NoPrev
  /\ orig = fs[input_file]
  /\ oracle = <<>>
  /\ two = NotRunning /\ hv = NotRunning /\ vf = NotRunning

\* one uninterrupted run
NextLong ==
  \/ (pc = "idle" /\ Start)
  \/ Fetch
  \/ HandleException \/ HandleRedirect \/ HandleFound \/ HandleNoInfo
  \/ HandleFailed
  \/ CheckpointSave \/ CheckpointSkip \/ Sleep \/ FinalSave
  \/ save_csv

SpecLong == InitLong /\ [][NextLong]_vars

(* ------------------------------- claims -------------------------------- *)
\* C1: save_csv is atomic: once the output path holds a complete Table, it
\* holds a complete Table after every step of every save, so that a process
\* terminated at any point leaves the previous snapshot or the new one.
C1_TargetAlwaysComplete ==
  [][IsTable(fs[output_file]) => IsTable(fs'[output_file])]_vars

\* C2: the enrichments of the working Table that no completed save has
\* persisted yet never number more than one batch interval.
C2_UnpersistedWithinBatch == pending <= BatchInterval

\* C3 (as claimed): whenever the loop takes the next Record, or leaves the
\* last one, every enrichment made so far in the run has been persisted.
C3_PersistedBeforeNextRecord == pc \in {"loop", "final"} => pending = 0

\* C3 (amended): the visit of a Record whose index is a multiple of the batch
\* interval, or of the final Record, that reaches the checkpoint leaves no
\* enrichment unpersisted; and a run that completes has persisted exactly
\* its working Table.
C3_PersistedAtCheckpoints ==
  /\ (pc = "sleep" /\ (idx % BatchInterval = 0 \/ idx = total - 1)) => pending = 0
  /\ (pc = "done" /\ exit = "complete") =>
       /\ pending = 0
       /\ fs[output_file] = Table(fieldnames, all_rows)

\* the final Record, not on a batch boundary, was enriched and persisted by
\* the checkpoint
C3_Witness ==
  /\ pc = "sleep"
  /\ idx = total - 1
  /\ idx % BatchInterval # 0
  /\ row.suite # ""
  /\ enriched > 0
  /\ pending = 0
  /\ fs[output_file] = Table(fieldnames, all_rows)

\* number of Records of rs whose secondary unit is filled
Resolved(rs) == Cardinality({i \in 1..Len(rs) : rs[i].suite # ""})

NoDuplicates(s) == \A i, j \in 1..Len(s) : s[i] = s[j] => i = j

\* the schema an uninterrupted run on the original input persists
UninterruptedSchema == Uninterrupted.fieldnames

\* C4: a run that follows a terminated run which had enriched N Records, on
\* the same paths, ends with a persisted Table of at least N Records with a
\* secondary unit, whose schema has no duplicate column and the column order
\* of an uninterrupted run.
C4_ResumeKeepsEnrichments ==
  (pc = "done" /\ prev.kind = "killed") =>
    /\ IsTable(fs[output_file])
    /\ Resolved(fs[output_file].rows) >= prev.n
    /\ NoDuplicates(fs[output_file].fieldnames)
    /\ fs[output_file].fieldnames = UninterruptedSchema

\* C5: a completed run that follows a completed run on the same paths leaves
\* every Record that had a secondary unit after the first run with the same
\* field values, and issues no fetch for it.
C5_SecondRunKeepsResolved ==
  (pc = "done" /\ exit = "complete" /\ prev.kind = "complete") =>
    /\ IsTable(prev.out)
    /\ IsTable(fs[output_file])
    /\ Len(fs[output_file].rows) >= Len(prev.out.rows)
    /\ \A i \in 1..Len(prev.out.rows) :
         prev.out.rows[i].suite # "" =>
           /\ fs[output_file].rows[i] = prev.out.rows[i]
           /\ (i - 1) \notin fetched

\* the second run skipped a Record the first run had resolved and fetched
\* another one
C5_Witness ==
  /\ pc = "done" /\ exit = "complete" /\ prev.kind = "complete"
  /\ IsTable(prev.out)
  /\ prev.n > 0
  /\ Resolved(prev.out.rows) > 0
  /\ fetched # {}
  /\ input_file = PlainPath

\* C6: with a deterministic response per Record, a run that follows a
\* terminated run on the same paths ends with the persisted Table of one
\* uninterrupted run on the original input.
C6_ResumeEqualsUninterrupted ==
  (pc = "done" /\ prev.kind = "killed" /\ IsTable(orig) /\ orig.rows # <<>>) =>
    fs[output_file] = Uninterrupted

\* C7: in every snapshot at the output path, whatever runs produced it
\* (fresh start, resumed checkpoint, discarded checkpoint), the
\* secondary-unit column appears exactly once, at the same position.
C7_SuiteColumnFixed ==
  IsTable(fs[DetailedPath]) =>
    IndicesOf(fs[DetailedPath].fieldnames, SuiteCol) = {SuiteIndex}

\* a run that discarded the checkpoint of a completed run, the input having
\* grown, completed and persisted its Table
C7_Witness ==
  /\ pc = "done" /\ exit = "complete" /\ prev.kind = "complete"
  /\ IsTable(prev.out) /\ IsTable(fs[output_file])
  /\ Len(prev.out.rows) < Len(fs[output_file].rows)
  /\ Resolved(fs[output_file].rows) > 0

NotSuite(c) == c # SuiteCol

\* fn2 is fn with the secondary-unit column added when fn lacks it
SuiteAdded(fn2, fn) ==
  IF Contains(fn, SuiteCol) THEN fn2 = fn
  ELSE /\ Cardinality(IndicesOf(fn2, SuiteCol)) = 1
       /\ SelectSeq(fn2, NotSuite) = fn

\* C8: a run that starts its loop works on the loaded output Table, whole,
\* when that Table has at least as many rows as the input, and otherwise on
\* the input Table with the secondary-unit column added when absent.
C8_ResumeProtocol ==
  [][(pc \in {"idle", "done", "killed"} /\ pc' = "loop") =>
       LET inp == fs[input_file]
           out == fs[output_file]
       IN  IF IsTable(out) /\ Len(out.rows) >= Len(inp.rows)
           THEN Table(fieldnames', all_rows') = out
           ELSE /\ all_rows' = inp.rows
                /\ SuiteAdded(fieldnames', inp.fieldnames)]_vars

\* a run started from the input although a shorter output Table with
\* enriched Records existed
C8_Witness ==
  /\ pc = "loop" /\ idx = 0
  /\ IsTable(fs[output_file])
  /\ Len(fs[output_file].rows) < Len(fs[input_file].rows)
  /\ Resolved(fs[output_file].rows) > 0
  /\ all_rows = fs[input_file].rows
  /\ fieldnames # fs[input_file].fieldnames

InRun == pc \notin {"idle", "done", "killed"}

\* the response in hand is a 200 whose page yields a unit longer than one
\* character
GoodResponse ==
  /\ ~resp.exc
  /\ resp.status = StatusOK
  /\ Len(extract_suite_info(resp.page)) > MinUnitLen

\* C9: inside a run a Record's secondary unit goes from empty to non-empty
\* only in the handling of a 200 response whose extraction is longer than one
\* character, and it is that Record's and that extraction; the handling of
\* any other response, and of a redirect to the listings or home page, leaves
\* every Record as it is and goes on to the checkpoint or to the next Record.
C9_EnrichOnlyOnGoodResponse ==
  [][/\ (InRun /\ pc' \notin {"idle", "killed"}) =>
          \A i \in 1..Len(all_rows) :
            (all_rows[i].suite = "" /\ all_rows'[i].suite # "") =>
              /\ pc = "got"
              /\ GoodResponse
              /\ i = idx + 1
              /\ all_rows'[i].suite = extract_suite_info(resp.page)
     /\ (pc = "got" /\ pc' # "killed" /\ (~GoodResponse \/ IsListingRedirect(resp))) =>
          /\ all_rows' = all_rows
          /\ \/ pc' = "ckpt" /\ idx' = idx
             \/ pc' \in {"loop", "final"} /\ idx' = idx + 1]_vars

\* a Record was enriched from a 200 response, another one was left empty
\* after a response that is not one
C9_Witness ==
  /\ pc = "ckpt"
  /\ idx = 1
  /\ all_rows[1].suite = "" /\ all_rows[1].ok
  /\ all_rows[2].suite # ""
  /\ fetched = {0, 1}
  /\ enriched = 1

\* C10: a fetch that follows another fetch of the same run is separated
\* from it by the delay step.
C10_DelayBetweenFetches ==
  [][(pc = "loop" /\ pc' = "got") => sinceFetch # "fetched"]_vars

(* ------------- two Enricher runs on the same output path --------------- *)
\* Two invocations of ATMB_detail.py whose output path is the same, each
\* calling save_csv (ATMB_detail.py:55-64) with its own working Table.  Both
\* compute the same temporary path, filename + ".tmp".  File semantics are
\* those of a POSIX system: an open handle follows its file through a rename
\* and outlives a remove, and os.rename replaces an existing target.
Runs == {1, 2}
Other(p) == IF p = 1 THEN 2 ELSE 1

\* the bytes of two files meant for the same path, neither a Table
Mixed == [kind |-> "mixed"]

\* the variables of the single Enricher, the files apart
single ==
  <<input_file, pc, sv, exit, proc, pending, enriched, sinceFetch, fetched,
    prev, orig, oracle>>

\* the bytes the unit cells of the rows take
RECURSIVE CellBytes(_)
CellBytes(rs) ==
  IF rs = <<>> THEN 0 ELSE Len(Head(rs).suite) + CellBytes(Tail(rs))

\* ATMB_detail.py:57-60: what a file holds after a handle opened before its
\* last truncation writes t from offset 0 and is closed.  The two Tables
\* differ in their unit cells only.
Overlay(old, t) ==
  IF old \in {EmptyFile, t} THEN t
  ELSE IF IsTable(old) /\ CellBytes(t.rows) >= CellBytes(old.rows) THEN t
  ELSE Mixed

\* the working Table of a run that has enriched the first j of k Records
Snapshot(k, j) ==
  Table(DetailedSchema,
        [i \in 1..k |-> Rec(i, TRUE, IF i <= j THEN "#244" ELSE "")])

InitTwo ==
  /\ input_file \in Paths
  /\ \E k \in 1..MaxRows :
       /\ fs = [p \in AllPaths |->
                  IF p # input_file THEN NoFile
                  ELSE IF p = PlainPath
                       THEN Table(HarvestSchema, [i \in 1..k |-> Rec(i, TRUE, "")])
                       ELSE Snapshot(k, 0)]
       /\ \E j \in [Runs -> 0..k] :
            two = [p \in Runs |->
                     [sv |-> "-", hnd |-> "none", snap |-> Snapshot(k, j[p])]]
  /\ pc = "idle" /\ sv = "-" /\ exit = "-"
  /\ fieldnames = <<>> /\ all_rows = <<>> /\ idx = 0 /\ success_count = 0
  /\ updated_any = FALSE /\ resp = NoResponse
  /\ pending = 0 /\ enriched = 0 /\ sinceFetch = "none" /\ fetched = {}
  /\ prev = NoPrev /\ orig = fs[input_file] /\ oracle = <<>>
  /\ hv = NotRunning /\ vf = NotRunning

\* ATMB_detail.py:172,178: run p calls save_csv
CallBy(p) ==
  /\ two[p].sv = "-"
  /\ two' = [two EXCEPT ![p].sv = "open"]
  /\ UNCHANGED <<fs, single, hv, vf>>

\* ATMB_detail.py:57: open(temp_file, 'w') creates or truncates
OpenBy(p) ==
  /\ two[p].sv = "open"
  /\ fs' = [fs EXCEPT ![temp_file] = EmptyFile]
  /\ two' = [two EXCEPT ![p].sv = "write", ![p].hnd = temp_file]
  /\ UNCHANGED <<single, hv, vf>>

\* ATMB_detail.py:58-60: header and rows go to the file the handle is on,
\* when the file is closed
WriteBy(p) ==
  /\ two[p].sv = "write"
  /\ fs' = IF two[p].hnd = "unlinked" THEN fs
           ELSE [fs EXCEPT ![two[p].hnd] = Overlay(fs[two[p].hnd], two[p].snap)]
  /\ two' = [two EXCEPT ![p].sv = "exists", ![p].hnd = "none"]
  /\ UNCHANGED <<single, hv, vf>>

\* ATMB_detail.py:62
ExistsBy(p) ==
  /\ two[p].sv = "exists"
  /\ two' = [two EXCEPT ![p].sv =
               IF fs[output_file] # NoFile THEN "remove" ELSE "rename"]
  /\ UNCHANGED <<fs, single, hv, vf>>

\* ATMB_detail.py:63: os.remove raises FileNotFoundError when the other run
\* has removed the target since line 62
RemoveBy(p) ==
  /\ two[p].sv = "remove"
  /\ IF fs[output_file] = NoFile
       THEN /\ two' = [two EXCEPT ![p].sv = "raised"]
            /\ UNCHANGED fs
       ELSE /\ fs' = [fs EXCEPT ![output_file] = NoFile]
            /\ two' = [two EXCEPT ![p].sv = "rename",
                                  ![Other(p)].hnd =
                                     IF @ = output_file THEN "unlinked" ELSE @]
  /\ UNCHANGED <<single, hv, vf>>

\* ATMB_detail.py:64: os.rename raises FileNotFoundError when the other run
\* has renamed the temporary file away
RenameBy(p) ==
  /\ two[p].sv = "rename"
  /\ IF fs[temp_file] = NoFile
       THEN /\ two' = [two EXCEPT ![p].sv = "raised"]
            /\ UNCHANGED fs
       ELSE /\ fs' = [fs EXCEPT ![output_file] = fs[temp_file],
                                ![temp_file] = NoFile]
            /\ two' = [two EXCEPT ![p].sv = "-",
                                  ![Other(p)].hnd =
                                     IF @ = temp_file THEN output_file
                                     ELSE IF @ = output_file THEN "unlinked"
                                     ELSE @]
  /\ UNCHANGED <<single, hv, vf>>

NextTwo ==
  \E p \in Runs :
    \/ CallBy(p) \/ OpenBy(p) \/ WriteBy(p) \/ ExistsBy(p) \/ RemoveBy(p)
    \/ RenameBy(p)

SpecTwo == InitTwo /\ [][NextTwo]_vars

\* C11: with two runs saving to the same output path, the target, whenever
\* it exists, is a complete snapshot of one of the two runs (or the Table
\* that was there before them), and no save step of either run raises.
C11_ConcurrentSavesSafe ==
  /\ fs[output_file] # NoFile =>
       fs[output_file] \in {two[1].snap, two[2].snap, orig}
  /\ \A p \in Runs : two[p].sv # "raised"

(* ------------------------- the Harvester ------------------------------- *)
\* ATMB_scrape.py.  A line of an address block is a sequence of words; the
\* comma that ends the city is the word ",", attached to the word before it.
StateCodes == {"NY", "CO"}
ZipCodes == {"10901", "12345", "80202-1234"}

\* ATMB_scrape.py:44  ^(.*),\s+([A-Z]{2})\s+(\d{5}(?:-\d{4})?)$
MatchesCityStateZip(line) ==
  /\ Len(line) >= 3
  /\ line[Len(line) - 2] = ","
  /\ line[Len(line) - 1] \in StateCodes
  /\ line[Len(line)] \in ZipCodes

\* ATMB_scrape.py:31  the stripped non-empty lines
NonEmptyLine(line) == line # <<>>

\* ATMB_scrape.py:26-56: the four values, "" for an empty or missing one, and
\* whether the warning of line 53 was printed
parse_address_block(lines) ==
  LET parts == SelectSeq(lines, NonEmptyLine)
      last == parts[Len(parts)]
      tried == Len(parts) >= 2
      match == tried /\ MatchesCityStateZip(last)
  IN  IF parts = <<>>
      THEN [street |-> "", city |-> "", state |-> "", zip |-> "",
            warned |-> FALSE]
      ELSE [street |-> Join(parts[1]),
            city |-> IF match THEN Join(SubSeq(last, 1, Len(last) - 3)) ELSE "",
            state |-> IF match THEN last[Len(last) - 1] ELSE "",
            zip |-> IF match THEN last[Len(last)] ELSE "",
            warned |-> tried /\ ~match]

\* a listing entry: its number on the page and its address block
Entry(i, block) == [id |-> i, has |-> TRUE, addr |-> block]
\* ATMB_scrape.py:79-81: an entry without 't-addr' element
NoAddr(i) == [id |-> i, has |-> FALSE, addr |-> <<>>]

\* ATMB_scrape.py:102-103: the Record of an entry
HarvestRec(e) ==
  LET p == parse_address_block(e.addr)
  IN  [id |-> e.id, street |-> p.street, city |-> p.city, state |-> p.state,
       zip |-> p.zip]

\* ATMB_scrape.py:80-81,102: the entry is kept
Kept(e) ==
  /\ e.has
  /\ LET p == parse_address_block(e.addr)
     IN  p.street # "" /\ p.city # "" /\ p.state # "" /\ p.zip # ""

\* ATMB_scrape.py:91,53: the entry's block was parsed with a warning
Warned(e) == e.has /\ parse_address_block(e.addr).warned

\* ATMB_scrape.py:74-103: data
RECURSIVE ParseItems(_)
ParseItems(items) ==
  IF items = <<>> THEN <<>>
  ELSE IF Kept(Head(items))
       THEN <<HarvestRec(Head(items))>> \o ParseItems(Tail(items))
       ELSE ParseItems(Tail(items))

\* ATMB_scrape.py:62-64: get_soup gave None
NoSoup == [soup |-> FALSE, items |-> <<>>]
Listing(items) == [soup |-> TRUE, items |-> items]

\* ATMB_scrape.py:58-119: what the region's file holds after scrape_state got
\* the page, when writing raises nothing
scrape_state(page, old) ==
  IF ~page.soup THEN old
  ELSE IF page.items = <<>> THEN old
  ELSE IF ParseItems(page.items) = <<>> THEN old
  ELSE Table(HarvestSchema, ParseItems(page.items))

\* the Enricher is not running and there is no file of its own
IdleEnricher ==
  /\ input_file = PlainPath
  /\ fs = [p \in AllPaths |-> NoFile]
  /\ pc = "idle" /\ sv = "-" /\ exit = "-"
  /\ fieldnames = <<>> /\ all_rows = <<>> /\ idx = 0 /\ success_count = 0
  /\ updated_any = FALSE /\ resp = NoResponse
  /\ pending = 0 /\ enriched = 0 /\ sinceFetch = "none" /\ fetched = {}
  /\ prev = NoPrev /\ orig = NoFile /\ oracle = <<>>

enricher == <<fs, single>>

(* ------------------------ the Harvester's fan-out ---------------------- *)
\* most regions the index page lists
MaxRegions == 6
\* ATMB_scrape.py:149  ThreadPoolExecutor(max_workers=5)
MaxWorkers == 5

StreetLine == <<"123", "Main", "St">>
CityLine == <<"Airmont", ",", "NY", "10901">>

\* the listing page of region r: one entry for an odd r, no entry for an
\* even one
RegionPage(r) ==
  IF r % 2 = 1 THEN Listing(<<Entry(1, <<StreetLine, CityLine>>)>>)
  ELSE Listing(<<>>)

\* ATMB_scrape.py:58-119: what scrape_state leaves at the path of region r,
\* where no file was before
Harvested == [r \in 1..MaxRegions |-> scrape_state(RegionPage(r), NoFile)]

Settled == {"returned", "raised"}
Running == {r \in DOMAIN hv.task : hv.task[r] = "running"}

InitFan ==
  /\ IdleEnricher
  /\ two = NotRunning /\ vf = NotRunning
  /\ hv = [main |-> "start", task |-> <<>>, got |-> {}, logged |-> {},
           files |-> <<>>]

\* ATMB_scrape.py:127-129: the index page cannot be fetched
IndexFails ==
  /\ hv.main = "start"
  /\ hv' = [hv EXCEPT !.main = "finished"]
  /\ UNCHANGED <<enricher, two, vf>>

\* ATMB_scrape.py:131-150: the index page lists n regions, one task is
\* submitted for each
SubmitAll ==
  /\ hv.main = "start"
  /\ \E n \in 0..MaxRegions :
       hv' = [hv EXCEPT !.main = "collect",
                        !.task = [r \in 1..n |-> "queued"],
                        !.files = [r \in 1..n |-> NoFile]]
  /\ UNCHANGED <<enricher, two, vf>>

\* a free worker of the pool takes the next task of the queue
Dispatch(r) ==
  /\ hv.task[r] = "queued"
  /\ \A q \in 1..(r - 1) : hv.task[q] # "queued"
  /\ Cardinality(Running) < MaxWorkers
  /\ hv' = [hv EXCEPT !.task[r] = "running"]
  /\ UNCHANGED <<enricher, two, vf>>

\* ATMB_scrape.py:58-122: scrape_state(slug) returns
TaskReturns(r) ==
  /\ hv.task[r] = "running"
  /\ hv' = [hv EXCEPT !.task[r] = "returned",
                      !.files[r] = Harvested[r]]
  /\ UNCHANGED <<enricher, two, vf>>

\* scrape_state(slug) raises something it does not catch (os.makedirs, the
\* parser); the future keeps the exception
TaskRaises(r) ==
  /\ hv.task[r] = "running"
  /\ hv' = [hv EXCEPT !.task[r] = "raised"]
  /\ UNCHANGED <<enricher, two, vf>>

\* future.result() outside any try
CollectUncaught(r) ==
  /\ hv.main = "collect"
  /\ hv.task[r] \in Settled
  /\ r \notin hv.got
  /\ hv' = [hv EXCEPT !.got = @ \cup {r},
                      !.main = IF hv.task[r] = "raised" THEN "aborted" ELSE @]
  /\ UNCHANGED <<enricher, two, vf>>

\* ATMB_scrape.py:151-156: as_completed yields a finished future, its
\* exception is caught and printed
Collect(r) ==
  /\ hv.main = "collect"
  /\ hv.task[r] \in Settled
  /\ r \notin hv.got
  /\ hv' = [hv EXCEPT !.got = @ \cup {r},
                      !.logged = IF hv.task[r] = "raised" THEN @ \cup {r} ELSE @]
  /\ UNCHANGED <<enricher, two, vf>>

\* ATMB_scrape.py:149-156: every future was yielded, the pool is shut down
scrape_us_ends ==
  /\ hv.main = "collect"
  /\ hv.got = DOMAIN hv.task
  /\ hv' = [hv EXCEPT !.main = "finished"]
  /\ UNCHANGED <<enricher, two, vf>>

NextFan ==
  \/ IndexFails
  \/ SubmitAll
  \/ \E r \in DOMAIN hv.task : Dispatch(r)
  \/ \E r \in DOMAIN hv.task : TaskReturns(r)
  \/ \E r \in DOMAIN hv.task : TaskRaises(r)
  \/ \E r \in DOMAIN hv.task : Collect(r)
  \/ scrape_us_ends

\* the pool's threads and the main thread all get to run
SpecFan == InitFan /\ [][NextFan]_vars /\ WF_vars(NextFan)

\* C12: in fan-out mode at most MaxWorkers regions are being processed at a
\* time, an exception of one region's task never aborts the run, every
\* region's task eventually returns or raises, and the run finishes.
C12_FanOutIsolation ==
  /\ [](Cardinality(Running) <= MaxWorkers /\ hv.main # "aborted")
  /\ <>[](/\ hv.main = "finished"
          /\ \A r \in DOMAIN hv.task : hv.task[r] \in Settled)

\* more regions than workers were found, the task of region 2 raised, every
\* other task returned, and the run finished
C12_Witness ==
  /\ hv.main = "finished"
  /\ Len(hv.task) > MaxWorkers
  /\ hv.task[2] = "raised"
  /\ \A r \in DOMAIN hv.task : r # 2 => hv.task[r] = "returned"
  /\ IsTable(hv.files[3])

(* --------------------------- the Verifier ------------------------------ *)
\* ATMB_verify.py.  Its files are its own: the input, the output next to it
\* and the credentials file.
RdiCol == "RDI"
CmraCol == "CMRA"
ZipCol == "Zip Code"

\* list.remove(x): the first occurrence goes
Remove(s, x) ==
  IF ~Contains(s, x) THEN s
  ELSE LET i == CHOOSE j \in 1..Len(s) :
                  s[j] = x /\ \A k \in 1..(j - 1) : s[k] # x
       IN  SubSeq(s, 1, i - 1) \o SubSeq(s, i + 1, Len(s))

\* list.index(x), 0-based
IndexOf(s, x) ==
  (CHOOSE j \in 1..Len(s) : s[j] = x /\ \A k \in 1..(j - 1) : s[k] # x) - 1

\* ATMB_verify.py:144-151
PlaceColumns(fn) ==
  IF Contains(fn, ZipCol)
  THEN LET zip_idx == IndexOf(fn, ZipCol)
       IN  InsertAt(InsertAt(fn, zip_idx + 1, CmraCol), zip_idx + 1, RdiCol)
  ELSE Append(Append(fn, RdiCol), CmraCol)

\* the schema step without the removal of lines 139-142
VerifiedSchemaKeep(fn) == PlaceColumns(fn)

\* ATMB_verify.py:136-151: the output schema of an input schema
VerifiedSchema(fn) ==
  PlaceColumns(
    LET f1 == IF Contains(fn, RdiCol) THEN Remove(fn, RdiCol) ELSE fn
    IN  IF Contains(f1, CmraCol) THEN Remove(f1, CmraCol) ELSE f1)

\* the column names an input header is made of
ColumnNames == {"Street Address", ZipCol, RdiCol, CmraCol}

\* every header of distinct names
Headers ==
  UNION { { s \in [1..n -> ColumnNames] : NoDuplicates(s) } :
          n \in 0..Cardinality(ColumnNames) }

\* the input file and its names: base and extension of os.path.splitext
VPlain == [base |-> "co", ext |-> ".csv"]
VDetailed == [base |-> "co_detailed", ext |-> ".csv"]
PathOf(f) == f.base \o f.ext
\* ATMB_verify.py:93-94
VerifiedPath(f) == f.base \o "_verified" \o f.ext
\* ATMB_verify.py:90
IsDetailed(f) == f = VDetailed

\* the responses of the validation service: the call raises, no candidate,
\* a candidate with or without each of the two keys
Lookups ==
  { [exc |-> TRUE, found |-> FALSE, rdi |-> "", cmra |-> ""],
    [exc |-> FALSE, found |-> FALSE, rdi |-> "", cmra |-> ""] } \cup
  [exc : {FALSE}, found : {TRUE}, rdi : {"", "Residential"}, cmra : {"", "Y"}]

\* the handler of line 74 answers like the branch of line 62
verify_addressInvalid(a) ==
  IF a.exc \/ ~a.found THEN <<"Invalid", "Invalid">>
  ELSE <<IF a.rdi = "" THEN "Unknown" ELSE a.rdi,
         IF a.cmra = "" THEN "Unknown" ELSE a.cmra>>

\* ATMB_verify.py:38-76: (rdi, cmra) for a response of the service
verify_address(a) ==
  IF a.exc THEN <<"Error", "Error">>
  ELSE IF ~a.found THEN <<"Invalid", "Invalid">>
  ELSE <<IF a.rdi = "" THEN "Unknown" ELSE a.rdi,
         IF a.cmra = "" THEN "Unknown" ELSE a.cmra>>

\* ATMB_verify.py:169-175: the secondary parameter of a row
Secondary(f, r) ==
  IF IsDetailed(f) /\ r.suite # "#" THEN r.suite ELSE ""

\* longest input Table of the Verifier
MaxVRows == 2

\* an input row: id stands for its address cells
VRow(i, s) == [id |-> i, suite |-> s, rdi |-> "", cmra |-> ""]

\* the Tables of the pipeline at an input path: the Harvester's header or
\* the Enricher's, up to n rows
PipelineTables(f, n) ==
  { Table(IF IsDetailed(f) THEN DetailedSchema ELSE HarvestSchema,
          [i \in 1..k |->
             VRow(i, IF ~IsDetailed(f) THEN ""
                     ELSE IF i % 2 = 1 THEN "#244" ELSE "#")]) : k \in 0..n }

\* one row under every header of distinct names
HeaderTables == { Table(h, <<VRow(1, "")>>) : h \in Headers \ {<<>>} }

\* what the input path can hold
VerifierInputs(f, n) ==
  {NoFile, EmptyFile} \cup PipelineTables(f, n) \cup
  (IF IsDetailed(f) THEN {} ELSE HeaderTables)

\* the output of an earlier run
OldOutput == Table(<<"Street Address", RdiCol, CmraCol>>, <<>>)

vf_input == vf.files[PathOf(vf.file)]
vf_output == vf.files[VerifiedPath(vf.file)]
vf_total == Len(vf.rows)

InitVerify ==
  /\ IdleEnricher
  /\ two = NotRunning /\ hv = NotRunning
  /\ \E f \in {VPlain, VDetailed}, c \in {"missing", "incomplete", "ok"},
        o \in {NoFile, OldOutput} :
       \E t \in VerifierInputs(f, MaxVRows) :
         vf = [pc |-> "start", exit |-> "-", file |-> f, cred |-> c,
               files |-> [p \in {PathOf(f), VerifiedPath(f)} |->
                            IF p = PathOf(f) THEN t ELSE o],
               in0 |-> t, out0 |-> o,
               fieldnames |-> <<>>, rows |-> <<>>, i |-> 0, calls |-> 0,
               answers |-> <<>>, secondary |-> "", res |-> <<"", "">>]

VfExit(how) == vf' = [vf EXCEPT !.pc = "done", !.exit = how]

\* ATMB_verify.py:85-87
VfNoInput ==
  /\ vf.pc = "start"
  /\ vf_input = NoFile
  /\ VfExit("no input")
  /\ UNCHANGED <<enricher, two, hv>>

\* a start that opens the output file before it looks for the credentials
VfNoCredentialsLate ==
  /\ vf.pc = "start"
  /\ vf_input # NoFile
  /\ vf.cred = "missing"
  /\ vf' = [vf EXCEPT !.pc = "done", !.exit = "no credentials",
                      !.files[VerifiedPath(vf.file)] = EmptyFile]
  /\ UNCHANGED <<enricher, two, hv>>

\* ATMB_verify.py:98-109 and 14-19
VfNoCredentials ==
  /\ vf.pc = "start"
  /\ vf_input # NoFile
  /\ vf.cred = "missing"
  /\ VfExit("no credentials")
  /\ UNCHANGED <<enricher, two, hv>>

\* ATMB_verify.py:111 and 32-34
VfBadCredentials ==
  /\ vf.pc = "start"
  /\ vf_input # NoFile
  /\ vf.cred = "incomplete"
  /\ VfExit("bad credentials")
  /\ UNCHANGED <<enricher, two, hv>>

\* ATMB_verify.py:119-125
VfNoHeader ==
  /\ vf.pc = "start"
  /\ vf.cred = "ok"
  /\ vf_input = EmptyFile
  /\ VfExit("no header")
  /\ UNCHANGED <<enricher, two, hv>>

\* ATMB_verify.py:117-156: read the rows, build the output schema
VfRead ==
  /\ vf.pc = "start"
  /\ vf.cred = "ok"
  /\ IsTable(vf_input)
  /\ vf' = [vf EXCEPT !.pc = "open",
                      !.fieldnames = VerifiedSchema(vf_input.fieldnames),
                      !.rows = vf_input.rows]
  /\ UNCHANGED <<enricher, two, hv>>

\* ATMB_verify.py:159: open(output_file, 'w') creates or truncates
VfOpen ==
  /\ vf.pc = "open"
  /\ vf' = [vf EXCEPT !.pc = "header",
                      !.files[VerifiedPath(vf.file)] = EmptyFile]
  /\ UNCHANGED <<enricher, two, hv>>

\* ATMB_verify.py:159,193-194: open raises PermissionError
VfOpenDenied ==
  /\ vf.pc = "open"
  /\ VfExit("open denied")
  /\ UNCHANGED <<enricher, two, hv>>

\* The output file is written through a buffered handle that the program
\* never flushes: what writeheader and writerow hand over reaches the path
\* when the buffer runs full, whole lines at a time, and when the file is
\* closed.
Written == Table(vf.fieldnames, SubSeq(vf.rows, 1, vf.i))

\* ATMB_verify.py:160-161: the header goes to the handle
VfWriteHeader ==
  /\ vf.pc = "header"
  /\ vf' = [vf EXCEPT !.pc = "row"]
  /\ UNCHANGED <<enricher, two, hv>>

\* ATMB_verify.py:163-181: the lookup of the next row is answered by a
VfLookup(a) ==
  /\ vf.pc = "row"
  /\ vf.i < vf_total
  /\ vf' = [vf EXCEPT !.pc = "write",
                      !.calls = @ + 1,
                      !.answers = Append(@, a),
                      !.secondary = Secondary(vf.file, vf.rows[vf.i + 1]),
                      !.res = verify_address(a)]
  /\ UNCHANGED <<enricher, two, hv>>

\* ATMB_verify.py:183-189: the row gets its two cells and goes to the handle;
\* the buffer may run full with it
VfWriteRow ==
  /\ vf.pc = "write"
  /\ \E full \in BOOLEAN :
       LET rows2 == [vf.rows EXCEPT ![vf.i + 1].rdi = vf.res[1],
                                    ![vf.i + 1].cmra = vf.res[2]]
       IN  vf' = [vf EXCEPT !.pc = "row",
                            !.rows = rows2,
                            !.i = @ + 1,
                            !.res = <<"", "">>,
                            !.files[VerifiedPath(vf.file)] =
                               IF full
                               THEN Table(vf.fieldnames, SubSeq(rows2, 1, vf.i + 1))
                               ELSE @]
  /\ UNCHANGED <<enricher, two, hv>>

\* ATMB_verify.py:185,193-196: writerow raises, the file is closed, the
\* handler of the outer try prints and the run is over
VfWriteRaises ==
  /\ vf.pc = "write"
  /\ vf' = [vf EXCEPT !.pc = "done", !.exit = "write error",
                      !.files[VerifiedPath(vf.file)] = Written]
  /\ UNCHANGED <<enricher, two, hv>>

\* ATMB_verify.py:162,190-191: the loop is over, the file is closed
VfClose ==
  /\ vf.pc = "row"
  /\ vf.i = vf_total
  /\ vf' = [vf EXCEPT !.pc = "done", !.exit = "complete",
                      !.files[VerifiedPath(vf.file)] = Written]
  /\ UNCHANGED <<enricher, two, hv>>

\* the process is terminated from outside; what is in the buffer is lost
VfKill ==
  /\ vf.pc \in {"header", "row", "write"}
  /\ VfExit("killed")
  /\ UNCHANGED <<enricher, two, hv>>

NextVerify ==
  \/ VfNoInput \/ VfNoCredentials \/ VfBadCredentials \/ VfNoHeader
  \/ VfRead \/ VfOpen \/ VfOpenDenied \/ VfWriteHeader
  \/ (\E a \in Lookups : VfLookup(a))
  \/ VfWriteRow \/ VfWriteRaises \/ VfClose
  \/ VfKill

SpecVerify == InitVerify /\ [][NextVerify]_vars

C14_OutputIsPrefix ==
  /\ vf_input = vf.in0
  /\ vf.pc \in {"row", "write"} => vf_output = Written

NotNew(c) == c \notin {RdiCol, CmraCol}

\* C15: for an input header of distinct names the output header holds 'RDI'
\* and 'CMRA' once each, right after 'Zip Code' in that order or, without
\* 'Zip Code', as the last two columns; the other columns keep their order
\* and the step leaves its own output unchanged.
C15_VerifiedSchema ==
  (vf.fieldnames # <<>> /\ NoDuplicates(vf.in0.fieldnames)) =>
    LET fn == vf.in0.fieldnames
        out == vf.fieldnames
    IN  /\ Cardinality(IndicesOf(out, RdiCol)) = 1
        /\ Cardinality(IndicesOf(out, CmraCol)) = 1
        /\ IndexOf(out, CmraCol) = IndexOf(out, RdiCol) + 1
        /\ IF Contains(fn, ZipCol)
             THEN IndexOf(out, RdiCol) = IndexOf(out, ZipCol) + 1
             ELSE IndexOf(out, CmraCol) = Len(out) - 1
        /\ SelectSeq(out, NotNew) = SelectSeq(fn, NotNew)
        /\ VerifiedSchema(out) = out

\* the input header has both columns already, in the other order and away
\* from 'Zip Code'
C15_Witness ==
  /\ vf.pc = "open"
  /\ vf.in0.fieldnames = <<CmraCol, ZipCol, "Street Address", RdiCol>>
  /\ vf.fieldnames = <<ZipCol, RdiCol, CmraCol, "Street Address">>

\* C17: a run that ends on a missing input, a missing credentials file or
\* credentials without both keys has issued no lookup and has left the
\* output path as it was.
C17_StartupFailuresBeforeWork ==
  vf.exit \in {"no input", "no credentials", "bad credentials"} =>
    /\ vf.calls = 0
    /\ vf_output = vf.out0

\* the credentials are missing, the input has rows and an earlier output
\* exists
C17_Witness ==
  /\ vf.exit = "no credentials"
  /\ IsTable(vf.in0) /\ vf.in0.rows # <<>>
  /\ vf.out0 = OldOutput
  /\ vf_output = OldOutput

\* C16: a failure while one Record is processed (its lookup, its write)
\* never ends the run: a run that is not terminated from outside ends on a
\* startup failure or is complete, with one lookup for every input row.
C16_RecordFailureNeverAborts ==
  (vf.pc = "done" /\ vf.exit # "killed") =>
    /\ vf.exit \in {"no input", "no credentials", "bad credentials",
                    "no header", "open denied", "complete"}
    /\ vf.exit = "complete" => vf.calls = Len(vf.in0.rows)

(* --------------------- the Harvester on one region --------------------- *)
\* most entries of a listing page
MaxItems == 2

\* the address blocks a listing entry can carry: two and three lines ending
\* in a city line, blank lines around them, a last line without comma, a
\* single street line, a single city line, a city line without city, nothing
Blocks ==
  { <<StreetLine, CityLine>>,
    << <<"5", "Elm">>, <<"Suite", "100">>, <<"Denver", ",", "CO", "80202-1234">> >>,
    << <<>>, StreetLine, <<>>, CityLine >>,
    <<StreetLine, <<"Somewhere", "Else", "12345">> >>,
    <<StreetLine>>,
    <<CityLine>>,
    <<StreetLine, <<",", "NY", "10901">> >>,
    <<>> }

\* the entries a page can hold at position i
Entries(i) == {NoAddr(i)} \cup {Entry(i, b) : b \in Blocks}

\* the pages the listing URL of the region can serve
ListingPages ==
  { Listing(items) :
      items \in UNION { { s \in [1..n -> UNION {Entries(i) : i \in 1..n}] :
                            \A i \in 1..n : s[i].id = i } :
                        n \in 0..MaxItems } }

InitHarvest ==
  /\ IdleEnricher
  /\ two = NotRunning /\ vf = NotRunning
  /\ hv = [main |-> "idle", page |-> NoSoup, k |-> 0, data |-> <<>>,
           warned |-> {}, file |-> NoFile, old |-> NoFile, outcome |-> "-"]

\* ATMB_scrape.py:58-64: get_soup gives None, scrape_state returns
HvFetchFails ==
  /\ hv.main \in {"idle", "done"}
  /\ hv' = [hv EXCEPT !.main = "done", !.page = NoSoup, !.k = 0,
                      !.data = <<>>, !.warned = {}, !.old = hv.file,
                      !.outcome = "fetch failed"]
  /\ UNCHANGED <<enricher, two, vf>>

\* ATMB_scrape.py:66-72: the page holds no entry, scrape_state returns
HvNoLocations ==
  /\ hv.main \in {"idle", "done"}
  /\ hv' = [hv EXCEPT !.main = "done", !.page = Listing(<<>>), !.k = 0,
                      !.data = <<>>, !.warned = {}, !.old = hv.file,
                      !.outcome = "no locations"]
  /\ UNCHANGED <<enricher, two, vf>>

\* ATMB_scrape.py:58-68: the page holds entries
HvFetched(page) ==
  /\ hv.main \in {"idle", "done"}
  /\ page.items # <<>>
  /\ hv' = [hv EXCEPT !.main = "items", !.page = page, !.k = 0,
                      !.data = <<>>, !.warned = {}, !.old = hv.file,
                      !.outcome = "-"]
  /\ UNCHANGED <<enricher, two, vf>>

\* ATMB_scrape.py:74-103: the next entry of the loop
HvItem ==
  /\ hv.main = "items"
  /\ hv.k < Len(hv.page.items)
  /\ LET e == hv.page.items[hv.k + 1]
     IN  hv' = [hv EXCEPT !.k = @ + 1,
                          !.warned = IF Warned(e) THEN @ \cup {e.id} ELSE @,
                          !.data = IF Kept(e) THEN Append(@, HarvestRec(e))
                                   ELSE @]
  /\ UNCHANGED <<enricher, two, vf>>

\* ATMB_scrape.py:105-107: no entry was kept, scrape_state returns
HvNoData ==
  /\ hv.main = "items"
  /\ hv.k = Len(hv.page.items)
  /\ hv.data = <<>>
  /\ hv' = [hv EXCEPT !.main = "done", !.outcome = "no data"]
  /\ UNCHANGED <<enricher, two, vf>>

\* ATMB_scrape.py:109-120: the header and the rows replace the file
HvWrite ==
  /\ hv.main = "items"
  /\ hv.k = Len(hv.page.items)
  /\ hv.data # <<>>
  /\ hv' = [hv EXCEPT !.main = "done", !.outcome = "saved",
                      !.file = Table(HarvestSchema, hv.data)]
  /\ UNCHANGED <<enricher, two, vf>>

\* ATMB_scrape.py:115-122: open or a write raises IOError, which is caught:
\* the file is as it was, or truncated
HvWriteFails ==
  /\ hv.main = "items"
  /\ hv.k = Len(hv.page.items)
  /\ hv.data # <<>>
  /\ \E f \in {hv.file, EmptyFile} :
       hv' = [hv EXCEPT !.main = "done", !.outcome = "write failed",
                        !.file = f]
  /\ UNCHANGED <<enricher, two, vf>>

NextHarvest ==
  \/ HvFetchFails \/ HvNoLocations
  \/ (\E page \in ListingPages : HvFetched(page))
  \/ HvItem \/ HvNoData \/ HvWrite \/ HvWriteFails

SpecHarvest == InitHarvest /\ [][NextHarvest]_vars

(* ----------------------- claims on the Harvester ----------------------- *)
\* C18: after a run of the Harvester on a region whose write did not fail,
\* the region's file holds exactly the Records parsed in that run, an empty
\* Table when there were none, and nothing an earlier run left.
C18_OverwritesWholesale ==
  (hv.main = "done" /\ hv.outcome # "write failed") =>
    hv.file = Table(HarvestSchema, ParseItems(hv.page.items))

\* the non-empty lines of an entry's address block
Parts(e) == SelectSeq(e.addr, NonEmptyLine)
HasStreetLine(e) == e.has /\ Parts(e) # <<>>
LastLineMatches(e) ==
  HasStreetLine(e) /\ MatchesCityStateZip(Parts(e)[Len(Parts(e))])

\* C19: an entry of the listing is in the region's Table exactly when its
\* address block has a street line and its last non-empty line matches the
\* city/state/zip pattern; the Records of the Table have a street, a city, a
\* state and a zip and are in listing order; every dropped entry whose last
\* line failed the pattern was warned about.
C19_DropPolicy ==
  (hv.main = "done" /\ hv.outcome \in {"saved", "no data"}) =>
    LET items == hv.page.items
        InData(i) == \E j \in 1..Len(hv.data) : hv.data[j].id = i
    IN  /\ hv.outcome = "saved" => hv.file.rows = hv.data
        /\ \A i \in 1..Len(items) : InData(i) <=> LastLineMatches(items[i])
        /\ \A j \in 1..Len(hv.data) :
             /\ hv.data[j].street # "" /\ hv.data[j].city # ""
             /\ hv.data[j].state # "" /\ hv.data[j].zip # ""
             /\ \A l \in 1..(j - 1) : hv.data[l].id < hv.data[j].id
        /\ \A i \in 1..Len(items) :
             (~InData(i) /\ HasStreetLine(items[i]) /\ ~LastLineMatches(items[i]))
               => i \in hv.warned

(* --------------------- one run of the Enricher ------------------------ *)
\* One invocation of process_file that nothing interrupts; the process gets
\* to run until it returns.
NextOnce ==
  \/ (pc = "idle" /\ (StartNoInput \/ StartNoRows \/ Start))
  \/ Fetch
  \/ Loop
  \/ save_csv

SpecOnce == Init /\ [][NextOnce]_vars /\ WF_vars(NextOnce)

\* C20: a run visits the Records one after the other, fetches at most once
\* for a Record and never for one that has a unit or lacks city or street,
\* returns, and when it went through the loop it ends with the working Table
\* persisted.
C20_SinglePass ==
  /\ [][idx' # idx => idx' = idx + 1]_vars
  /\ [][(pc = "loop" /\ pc' = "got") =>
          (idx \notin fetched /\ row.suite = "" /\ row.ok)]_vars
  /\ [][pc = "final" => pc' \in {"final", "done"}]_vars
  /\ [](pc = "done" /\ exit = "complete" =>
          /\ idx = total
          /\ fetched \subseteq 0..(total - 1)
          /\ fs[output_file] = Table(fieldnames, all_rows))
  /\ <>(pc = "done")

\* a completed run on three Records: the first had its unit, the second was
\* fetched and enriched, the third has no city or street
C20_Witness ==
  /\ pc = "done" /\ exit = "complete"
  /\ total = 3
  /\ orig.rows[1].suite # ""
  /\ ~all_rows[3].ok
  /\ fetched = {1}
  /\ enriched = 1
  /\ fs[output_file].rows[2].suite # ""

(* ------------------ the frame of the Enricher's output ----------------- *)
\* the Table new holds every Record of the Table old at its place, with its
\* fields other than the secondary unit as they were and with a secondary
\* unit where old had one
KeepsRecords(old, new) ==
  /\ Len(new.rows) >= Len(old.rows)
  /\ \A i \in 1..Len(old.rows) :
       /\ new.rows[i].id = old.rows[i].id
       /\ new.rows[i].ok = old.rows[i].ok
       /\ old.rows[i].suite # "" => new.rows[i].suite # ""

\* C21: whenever save_csv replaces a Table at the output path
\* (ATMB_detail.py:62-64), in any run, the Table it puts there holds every
\* Record of the Table it removes, in the same order, with the same fields
\* other than the secondary unit, and with a secondary unit wherever the
\* removed Table had one.
C21_EnricherFrame ==
  (sv = "remove" /\ IsTable(fs[output_file])) =>
    KeepsRecords(fs[output_file], fs[temp_file])

(* ---------------------- the reported success count --------------------- *)
\* C22: when a run has completed (ATMB_detail.py:179), success_count is the
\* number of Records of the persisted Table that have a secondary unit, which
\* is the number this run enriched plus the number it found with a unit and
\* did not fetch; it is at most total, and total is the number of Records of
\* the persisted Table.
C22_SuccessCount ==
  (pc = "done" /\ exit = "complete") =>
    /\ IsTable(fs[output_file])
    /\ success_count = Resolved(fs[output_file].rows)
    /\ success_count =
         enriched + Cardinality({i \in 1..total :
                      all_rows[i].suite # "" /\ (i - 1) \notin fetched})
    /\ success_count <= total
    /\ total = Len(fs[output_file].rows)

\* a run that resumed from the checkpoint of a terminated run: the first of
\* three Records had its unit at loop entry, the second was enriched, the
\* fetch for the third gave no unit
C22_Witness ==
  /\ pc = "done" /\ exit = "complete"
  /\ prev.kind = "killed"
  /\ input_file = PlainPath
  /\ total = 3
  /\ fetched = {1, 2}
  /\ enriched = 1
  /\ success_count = 2
  /\ fs[output_file].rows[3].suite = ""

====
